---- MODULE Spec2Model ----
(***************************************************************************)
(* OpenGlider: the Rib placement (openglider/glider/rib.py), the MiniRib   *)
(* blending function and the Profile2D engine (Profile/_Classes.py).       *)
(*                                                                         *)
(* Floating point numbers are modelled in fixed point: the integer v       *)
(* stands for the number v / Unit.  Angles are in radians, so the integer  *)
(* 500 is the angle 0.5 rad.  Products and quotients round to the nearest  *)
(* representable value.                                                    *)
(***************************************************************************)
EXTENDS Integers, Sequences, FiniteSets, TLC

\* The fixed-point representation of 1.0.
Unit == 10 ^ 3

\* pi, pi/2 and 2*pi in fixed point (math.pi).
Pi == 3142

HalfPi == Pi \div 2

TwoPi == 2 * Pi

----------------------------------------------------------------------------
(* Arithmetic of the fixed-point numbers.  The operations are functions,   *)
(* so that an argument is evaluated once, where the operation is applied.  *)

Abs[a \in Int] == IF a < 0 THEN -a ELSE a

Sgn[a \in Int] == IF a < 0 THEN -1 ELSE IF a > 0 THEN 1 ELSE 0

Min2[a \in Int, b \in Int] == IF a < b THEN a ELSE b

Max2[a \in Int, b \in Int] == IF a > b THEN a ELSE b

\* a / b rounded to the nearest integer, halves away from zero (b # 0).
RoundDiv[a \in Int, b \in Int] ==
    Sgn[a] * Sgn[b] * ((2 * Abs[a] + Abs[b]) \div (2 * Abs[b]))

\* The product of two fixed-point numbers.
Mul[a \in Int, b \in Int] == RoundDiv[a * b, Unit]

\* The quotient of two fixed-point numbers (b # 0).
Div[a \in Int, b \in Int] == RoundDiv[a * Unit, b]

\* Newton's iteration for the integer square root of n, from the guess g.
SqrtIter[n \in Int, g \in Int, fuel \in Int] ==
    LET h == (g + n \div g) \div 2
    IN  IF fuel = 0 \/ h >= g THEN g ELSE SqrtIter[n, h, fuel - 1]

\* The largest integer r with r * r <= n (n >= 0).
ISqrt[n \in Int] == IF n <= 0 THEN 0 ELSE SqrtIter[n, n, 40]

\* The integer nearest to the square root of n.
NearestRoot[n \in Int, r \in Int] ==
    IF (r + 1) * (r + 1) - n < n - r * r THEN r + 1 ELSE r

\* numpy.sqrt of a fixed-point number.
Sqrt[a \in Int] == NearestRoot[a * Unit, ISqrt[a * Unit]]

\* The odd Taylor series x - x^3/3! + x^5/5! - ..., term by term: t is the
\* last term, k its degree.
SinTerms[x2 \in Int, t \in Int, k \in Int] ==
    IF t = 0 \/ k > 11 THEN 0
    ELSE t - SinTerms[x2, RoundDiv[t * x2, (k + 1) * (k + 2) * Unit], k + 2]

\* The sine of an angle in [-pi/2, pi/2], by its Taylor series.
SinSeries[x \in Int] == SinTerms[Mul[x, x], x, 1]

\* The angle r in [-pi, pi) folded into [-pi/2, pi/2] (same sine).
FoldAngle[r \in Int] ==
    IF r > HalfPi THEN Pi - r ELSE IF r < -HalfPi THEN -Pi - r ELSE r

\* numpy.sin / math.sin
Sin[x \in Int] == SinSeries[FoldAngle[((x + Pi) % TwoPi) - Pi]]

\* numpy.cos
Cos[x \in Int] == Sin[x + HalfPi]

\* The series y - y^3/3 + y^5/5 - ...: p is the last power, k its degree.
ArcTanTerms[y2 \in Int, p \in Int, k \in Int] ==
    IF p = 0 \/ k > 9 THEN 0
    ELSE RoundDiv[p, k] - ArcTanTerms[y2, Mul[p, y2], k + 2]

\* The arctangent of a small argument, by its Taylor series.
ArcTanSeries[y \in Int] == ArcTanTerms[Mul[y, y], y, 1]

\* atan(x) = 2 atan(x / (1 + sqrt(1 + x^2))): halves the angle.
ArcTanHalve[x \in Int] == Div[x, Unit + Sqrt[Unit + Mul[x, x]]]

\* numpy.arctan
ArcTan[x \in Int] == 4 * ArcTanSeries[ArcTanHalve[ArcTanHalve[x]]]

----------------------------------------------------------------------------
(* Vectors and matrices (numpy arrays of fixed-point numbers).  An         *)
(* operator that uses an argument more than once binds its value first.    *)

Vec3 == Int \X Int \X Int

Dot3[u \in Vec3, v \in Vec3] == RoundDiv[u[1] * v[1] + u[2] * v[2] + u[3] * v[3], Unit]

Mat3 == Vec3 \X Vec3 \X Vec3

\* matrix.dot(vector)
MatVec[m \in Mat3, v \in Vec3] == <<Dot3[m[1], v], Dot3[m[2], v], Dot3[m[3], v]>>

Column[m \in Mat3, j \in 1..3] == <<m[1][j], m[2][j], m[3][j]>>

\* a.dot(b) of two 3x3 matrices
MatMul[a \in Mat3, b \in Mat3] ==
    << <<Dot3[a[1], Column[b, 1]], Dot3[a[1], Column[b, 2]], Dot3[a[1], Column[b, 3]]>>,
       <<Dot3[a[2], Column[b, 1]], Dot3[a[2], Column[b, 2]], Dot3[a[2], Column[b, 3]]>>,
       <<Dot3[a[3], Column[b, 1]], Dot3[a[3], Column[b, 2]], Dot3[a[3], Column[b, 3]]>> >>

VecAdd[u \in Vec3, v \in Vec3] == <<u[1] + v[1], u[2] + v[2], u[3] + v[3]>>

VecScale[u \in Vec3, s \in Int] == <<Mul[u[1], s], Mul[u[2], s], Mul[u[3], s]>>

\* openglider.vector.norm
Norm3[u \in Vec3] == Sqrt[Dot3[u, u]]

\* u / n
VecDiv[u \in Vec3, n \in Int] == <<Div[u[1], n], Div[u[2], n], Div[u[3], n]>>

\* openglider.vector.normalize
Normalize3[u \in Vec3] == VecDiv[u, Norm3[u]]

\* The rotation matrix of the Euler-Rodrigues parameters a, b, c, d.
EulerRodrigues[a \in Int, b \in Int, c \in Int, d \in Int] ==
    LET aa == Mul[a, a]
        bb == Mul[b, b]
        cc == Mul[c, c]
        dd == Mul[d, d]
    IN  << <<aa + bb - cc - dd, 2 * (Mul[b, c] - Mul[a, d]), 2 * (Mul[b, d] + Mul[a, c])>>,
           <<2 * (Mul[b, c] + Mul[a, d]), aa + cc - bb - dd, 2 * (Mul[c, d] - Mul[a, b])>>,
           <<2 * (Mul[b, d] - Mul[a, c]), 2 * (Mul[c, d] + Mul[a, b]), aa + dd - bb - cc>> >>

\* -normalize(axis) * sin(angle / 2)
RodriguesAxis[n \in Vec3, s \in Int] == <<-Mul[n[1], s], -Mul[n[2], s], -Mul[n[3], s]>>

\* The matrix of a, (b, c, d).
RodriguesMatrix[a \in Int, bcd \in Vec3] == EulerRodrigues[a, bcd[1], bcd[2], bcd[3]]

\* openglider.vector.rotation_3d: the matrix of the rotation by angle about
\* axis.
rotation_3d[angle \in Int, axis \in Vec3] ==
    RodriguesMatrix[Cos[RoundDiv[angle, 2]],
                    RodriguesAxis[Normalize3[axis], Sin[RoundDiv[angle, 2]]]]

\* rot turned further by angle about the axis that rot makes of the
\* canonical axis e: rotation_3d(angle, rot.dot(e)).dot(rot)
TurnAbout[rot \in Mat3, angle \in Int, e \in Vec3] ==
    MatMul[rotation_3d[angle, MatVec[rot, e]], rot]

\* rib.py rotation_rib: arc angle first, then the angle of attack about the
\* turned z axis, then zrot about the turned y axis.
rotation_rib(aoa, arc, zrot) ==
    TurnAbout[TurnAbout[rotation_3d[-arc + HalfPi, <<-Unit, 0, 0>>],
                        aoa, <<0, 0, Unit>>],
              zrot, <<0, Unit, 0>>]

----------------------------------------------------------------------------
(* Values of the model                                                     *)

\* The default profile of Profile2D.__init__, in fixed point.
DefaultProfile ==
    << <<1000, 0>>, <<500, 17>>, <<134, 64>>, <<0, 0>>,
       <<134, -47>>, <<500, -66>>, <<1000, 0>> >>

\* A second, coarser profile a rib can be bound to.
CoarseProfile == << <<1000, 0>>, <<0, 0>>, <<1000, 0>> >>

\* A profile object: its data is None or a list of points.
ProfileOf(points) == [object |-> TRUE, none |-> FALSE, data |-> points]

NoDataProfile == [object |-> TRUE, none |-> TRUE, data |-> <<>>]

\* None where a profile object is expected: it has no data attribute.
NoneObject == [object |-> FALSE, none |-> TRUE, data |-> <<>>]

RibProfiles == {ProfileOf(DefaultProfile), ProfileOf(CoarseProfile), NoDataProfile, NoneObject}

ArcangValues == {0, 500}

GlideValues == {1000, 2000}

ZrotValues == {0, 300}

AoaValues == {0, 100}

ChordValues == {1000, 2000}

PosValues == {<<0, 0, 0>>, <<100, 2000, -50>>}

\* The number of mutations of a rib that a behaviour performs.
MaxMutations == 2

\* An empty cache slot.
NoEntry == [valid |-> FALSE, hash |-> <<>>, value |-> <<>>]

Entry(h, v) == [valid |-> TRUE, hash |-> h, value |-> v]

\* What a property's __get__ did: the cache after it, whether it raised
\* and which error, the value it returned and the property functions that
\* ran.
NoError == <<>>

Returned(c, v, ran) ==
    [cache |-> c, raised |-> FALSE, error |-> NoError, value |-> v, ran |-> ran]

Raised(c, error, ran) ==
    [cache |-> c, raised |-> TRUE, error |-> error, value |-> <<>>, ran |-> ran]

\* raise ValueError("no 2d-profile present fortharib at rib {}".format(self.name))
ValueError(r) == <<"ValueError", r.name>>

\* None.data, None.normvectors
AttributeError == <<"AttributeError">>

VARIABLES
    rib,        \* the attributes of the Rib object
    cache,      \* the cached_property slots of the Rib
    last,       \* the last operation: its name, what it returned, which
                \* property functions ran during it
    unchanged,  \* per cached property: whether it was read and no declared
                \* dependency was mutated since, and what that read returned
    mutations,  \* the number of mutations performed
    minirib,    \* the MiniRib object
    weight,     \* the last call of MiniRib.function: its argument and result
    objects,    \* the Profile2D objects: self, other and first, the copy
                \* that __add__ makes and returns
    call,       \* the last operation on a profile
    fresh,      \* self as it was before the XValues sets since the last
                \* other operation
    resamples,  \* the number of those XValues sets (counted up to 2)
    steps,      \* the number of operations performed on the profiles
    xfoil,      \* the XFoil object
    files,      \* the temporary files that exist
    xcall,      \* the last call on the XFoil object and how it ended
    prior,      \* the XFoil object as it was when that call began
    xsteps      \* the number of operations performed on the XFoil object

ribVars == <<rib, cache, last, unchanged, mutations>>

miniVars == <<minirib, weight>>

profileVars == <<objects, call, fresh, resamples, steps>>

xfoilVars == <<xfoil, files, xcall, prior, xsteps>>

vars == <<rib, cache, last, unchanged, mutations, minirib, weight,
          objects, call, fresh, resamples, steps,
          xfoil, files, xcall, prior, xsteps>>

----------------------------------------------------------------------------
(* Rib: the angle of attack (rib.py 57-77, 99-102)                         *)

\* Rib.__aoa_diff: arctan(cos(arc_angle) / glide)
aoa_diff(arc_angle, glide) == ArcTan[Div[Cos[arc_angle], glide]]

\* Rib.aoa_absolute (getter); r._aoa is the pair <<value, relative>>.
aoa_absolute(r) ==
    IF ~r._aoa[2] THEN r._aoa[1]
    ELSE r._aoa[1] - aoa_diff(r.arcang, r.glide)

\* A slip in the getter: the difference is subtracted, as in aoa_absolute.
aoa_relative_subtracting(r) ==
    IF r._aoa[2] THEN r._aoa[1]
    ELSE r._aoa[1] - aoa_diff(r.arcang, r.glide)

\* Rib.aoa_relative (getter)
aoa_relative(r) ==
    IF r._aoa[2] THEN r._aoa[1]
    ELSE r._aoa[1] + aoa_diff(r.arcang, r.glide)

\* Rib.aoa_absolute (setter)
set_aoa_absolute(r, aoa) == [r EXCEPT !._aoa = <<aoa, FALSE>>]

\* Rib.aoa_relative (setter)
set_aoa_relative(r, aoa) == [r EXCEPT !._aoa = <<aoa, TRUE>>]

\* A slip in mirror: the twist keeps its sign.
mirror_keeping_zrot(r) ==
    [r EXCEPT !.arcang = -r.arcang,
              !.pos = <<r.pos[1], -r.pos[2], r.pos[3]>>]

\* Rib.mirror
mirror(r) ==
    [r EXCEPT !.arcang = -r.arcang,
              !.zrot = -r.zrot,
              !.pos = <<r.pos[1], -r.pos[2], r.pos[3]>>]

\* Rib.__init__; self.profile_2d = profile_2d or Profile2D(): for None the
\* rib gets a new profile object, one without data.
NewRib(profile_2d, ballooning, startpoint, chord, arcang, aoa, zrot, glide, name, aoa_abs) ==
    LET r0 == [name |-> name,
               profile_2d |-> IF profile_2d.object THEN profile_2d ELSE NoDataProfile,
               ballooning |-> ballooning,
               glide |-> glide, _aoa |-> <<0, FALSE>>, arcang |-> arcang,
               zrot |-> zrot, pos |-> startpoint, chord |-> chord]
    IN  IF aoa_abs THEN set_aoa_absolute(r0, aoa) ELSE set_aoa_relative(r0, aoa)

----------------------------------------------------------------------------
(* Rib: the cached properties (rib.py 15, 50-55, 79-94)                    *)

\* A hashlist that forgets the chord.
hashlist_without_chord == <<"aoa_absolute", "glide", "arcang", "zrot", "pos">>

\* Rib.hashlist: what hash(rib) covers.
hashlist == <<"aoa_absolute", "glide", "arcang", "zrot", "chord", "pos">>

\* A dependency list that names the chord as well.
rotation_matrix_deps_with_chord == <<"arcang", "glide", "zrot", "_aoa", "chord">>

\* The dependencies declared by @cached_property on rotation_matrix.
rotation_matrix_deps == <<"arcang", "glide", "zrot", "_aoa">>

\* getattr(rib, attribute) for the attributes that are hashed.
GetAttr(r, attribute) ==
    CASE attribute = "aoa_absolute" -> aoa_absolute(r)
      [] attribute = "glide" -> r.glide
      [] attribute = "arcang" -> r.arcang
      [] attribute = "zrot" -> r.zrot
      [] attribute = "chord" -> r.chord
      [] attribute = "pos" -> r.pos
      [] attribute = "_aoa" -> r._aoa
      [] attribute = "profile_2d" -> r.profile_2d
      [] attribute = "name" -> r.name

\* hash_attributes: the values of the listed attributes, which the cache
\* compares with those of the last computation.
HashAttributes(r, attributes) ==
    [i \in 1..Len(attributes) |-> GetAttr(r, attributes[i])]

\* CachedObject.__hash__: the dependency 'self' of profile_3d.
HashSelf(r) == HashAttributes(r, hashlist)

\* A rotation_matrix that passes zrot on as it is.
rotation_matrix_unscaled(r) == rotation_rib(aoa_absolute(r), r.arcang, r.zrot)

\* The body of Rib.rotation_matrix.
rotation_matrix(r) ==
    rotation_rib(aoa_absolute(r), r.arcang, Mul[Div[ArcTan[r.arcang], r.glide], r.zrot])

\* The function of a property ran: its value v is stored with the hash h
\* of its dependencies and returned.
Computed(c, property, h, v, ran) ==
    CHOOSE res \in {Returned([c EXCEPT ![property] = Entry(h, w)], w, ran) : w \in {v}} : TRUE

\* cached_property.__get__: the cached value when the hash of the
\* dependencies is the one of the last computation, the function otherwise.
RotationMatrixGet(r, c) ==
    IF c.rotation_matrix.valid
       /\ c.rotation_matrix.hash = HashAttributes(r, rotation_matrix_deps)
    THEN Returned(c, c.rotation_matrix.value, {})
    ELSE Computed(c, "rotation_matrix", HashAttributes(r, rotation_matrix_deps),
                  rotation_matrix(r), {"rotation_matrix"})

\* A 2D point with z = 0, or a 3D point.
Point3(point) == IF Len(point) = 2 THEN <<point[1], point[2], 0>> ELSE point

\* Rib.align with the rotation matrix m: pos + m.dot(point) * chord
AlignWith(r, m, point) ==
    VecAdd[r.pos, VecScale[MatVec[m, Point3(point)], r.chord]]

\* The body of Rib.profile_3d: align reads rotation_matrix for every point.
Profile3dCompute(r, c) ==
    IF ~r.profile_2d.object THEN Raised(c, AttributeError, {"profile_3d"})
    ELSE IF r.profile_2d.none THEN Raised(c, ValueError(r), {"profile_3d"})
    ELSE IF Len(r.profile_2d.data) = 0 THEN Returned(c, <<>>, {"profile_3d"})
    ELSE CHOOSE res \in
            {Returned(rot.cache,
                      [i \in 1..Len(r.profile_2d.data) |->
                          AlignWith(r, rot.value, r.profile_2d.data[i])],
                      rot.ran \cup {"profile_3d"}) : rot \in {RotationMatrixGet(r, c)}} : TRUE

\* cached_property('self').__get__ for profile_3d
Profile3dGet(r, c) ==
    IF c.profile_3d.valid /\ c.profile_3d.hash = <<HashSelf(r)>>
    THEN Returned(c, c.profile_3d.value, {})
    ELSE CHOOSE out \in
            {IF res.raised THEN res
             ELSE Computed(res.cache, "profile_3d", <<HashSelf(r)>>, res.value, res.ran) :
                res \in {Profile3dCompute(r, c)}} : TRUE

\* The unit normal of the chord from a to b.
Normal2D[dx \in Int, dy \in Int, n \in Int] ==
    IF n = 0 THEN <<0, 0>> ELSE <<Div[dy, n], -Div[dx, n]>>

\* Profile2D.normvectors: per point the unit normal of the chord through
\* its neighbours.
Normvectors2D(data) ==
    [i \in 1..Len(data) |->
        LET a == data[Max2[i - 1, 1]]
            b == data[Min2[i + 1, Len(data)]]
        IN  Normal2D[b[1] - a[1], b[2] - a[2],
                     Sqrt[Mul[b[1] - a[1], b[1] - a[1]] + Mul[b[2] - a[2], b[2] - a[2]]]]]

\* The body of Rib.normvectors
NormvectorsCompute(r, c) ==
    IF ~r.profile_2d.object THEN Raised(c, AttributeError, {"normvectors"})
    ELSE IF Len(r.profile_2d.data) = 0 THEN Returned(c, <<>>, {"normvectors"})
    ELSE CHOOSE res \in
            {Returned(rot.cache,
                      [i \in 1..Len(r.profile_2d.data) |->
                          MatVec[rot.value, Point3(Normvectors2D(r.profile_2d.data)[i])]],
                      rot.ran \cup {"normvectors"}) : rot \in {RotationMatrixGet(r, c)}} : TRUE

\* The rest of __get__ for normvectors, once the dependency was read.
NormvectorsAfter(r, dep) ==
    IF dep.cache.normvectors.valid /\ dep.cache.normvectors.hash = <<dep.value>>
    THEN Returned(dep.cache, dep.cache.normvectors.value, dep.ran)
    ELSE CHOOSE out \in
            {IF res.raised THEN [res EXCEPT !.ran = dep.ran \cup @]
             ELSE Computed(res.cache, "normvectors", <<dep.value>>, res.value,
                           dep.ran \cup res.ran) : res \in {NormvectorsCompute(r, dep.cache)}} : TRUE

\* cached_property('profile_3d').__get__ for normvectors: hashing the
\* dependency reads profile_3d.
NormvectorsGet(r, c) ==
    CHOOSE out \in
        {IF dep.raised THEN dep ELSE NormvectorsAfter(r, dep) :
            dep \in {Profile3dGet(r, c)}} : TRUE

----------------------------------------------------------------------------
(* Rib: the operations as actions                                          *)

EmptyCache == [rotation_matrix |-> NoEntry, profile_3d |-> NoEntry, normvectors |-> NoEntry]

NotRead == [read |-> FALSE, value |-> <<>>]

NothingRead == [rotation_matrix |-> NotRead, profile_3d |-> NotRead, normvectors |-> NotRead]

Did(name) == [op |-> name, raised |-> FALSE, error |-> NoError, value |-> <<>>, ran |-> {}]

\* The objects that are not part of the Rib stay as they are.
\* No MiniRib is constructed.
MiniIdle == minirib = <<>> /\ weight = <<>>

\* No Profile2D object is constructed.
ProfileIdle ==
    objects = <<>> /\ call = <<>> /\ fresh = <<>> /\ resamples = 0 /\ steps = 0

\* No XFoil object is constructed.
XFoilIdle ==
    xfoil = <<>> /\ files = {} /\ xcall = <<>> /\ prior = <<>> /\ xsteps = 0

\* Rib(profile_2d, ballooning, startpoint, arcang=0.5, aoa=0.1, zrot=0.3,
\* aoa_abs=..);
\* chord, glide and name keep their defaults.
RibInit ==
    /\ \E p \in {ProfileOf(DefaultProfile), NoneObject}, abs \in BOOLEAN :
          rib = NewRib(p, "ballooning", <<100, 2000, -50>>, Unit, 500, 100, 300, Unit,
                       "unnamed rib", abs)
    /\ cache = EmptyCache
    /\ last = Did("__init__")
    /\ unchanged = NothingRead
    /\ mutations = 0
    /\ MiniIdle
    /\ ProfileIdle
    /\ XFoilIdle

\* No Rib is constructed.
RibIdle ==
    /\ rib = <<>> /\ cache = <<>> /\ last = <<>> /\ unchanged = <<>>
    /\ mutations = 0

\* The values a cached property declares to depend on, of the rib r:
\* rotation_matrix on arcang, glide, zrot and _aoa; profile_3d on 'self',
\* the hashlist of the Rib; normvectors on profile_3d.
DeclaredDeps(property, r) ==
    CASE property = "rotation_matrix" -> <<r.arcang, r.glide, r.zrot, r._aoa>>
      [] property = "profile_3d" ->
            <<aoa_absolute(r), r.glide, r.arcang, r.zrot, r.chord, r.pos>>
      [] property = "normvectors" ->
            CHOOSE d \in {<<p3.raised, p3.value>> : p3 \in {Profile3dGet(r, cache)}} : TRUE

\* An assignment to an attribute or a call of mirror(): the cache slots are
\* not touched.
Mutate(name, r) ==
    /\ mutations < MaxMutations
    /\ mutations' = mutations + 1
    /\ rib' = r
    /\ last' = Did(name)
    /\ unchanged' = [p \in DOMAIN unchanged |->
                        IF unchanged[p].read /\ DeclaredDeps(p, r) = DeclaredDeps(p, rib)
                        THEN unchanged[p] ELSE NotRead]
    /\ UNCHANGED cache
    /\ UNCHANGED <<miniVars, profileVars, xfoilVars>>

SetAoaAbsolute == \E a \in AoaValues : Mutate("aoa_absolute=", set_aoa_absolute(rib, a))

SetAoaRelative == \E a \in AoaValues : Mutate("aoa_relative=", set_aoa_relative(rib, a))

SetArcang == \E a \in ArcangValues : Mutate("arcang=", [rib EXCEPT !.arcang = a])

SetZrot == \E z \in ZrotValues : Mutate("zrot=", [rib EXCEPT !.zrot = z])

SetGlide == \E g \in GlideValues : Mutate("glide=", [rib EXCEPT !.glide = g])

SetChord == \E ch \in ChordValues : Mutate("chord=", [rib EXCEPT !.chord = ch])

SetPos == \E p \in PosValues : Mutate("pos=", [rib EXCEPT !.pos = p])

Mirror == Mutate("mirror", mirror(rib))

\* profile_2d is bound to another profile, or its data is replaced.
SetProfile2d == \E p \in RibProfiles : Mutate("profile_2d=", [rib EXCEPT !.profile_2d = p])

\* A read of a cached property; res is what __get__ did.
Read(property, res) ==
    /\ cache' = res.cache
    /\ last' = [op |-> property, raised |-> res.raised, error |-> res.error,
                 value |-> res.value, ran |-> res.ran]
    /\ unchanged' = IF res.raised THEN unchanged
                    ELSE [unchanged EXCEPT ![property] = [read |-> TRUE, value |-> res.value]]
    /\ UNCHANGED <<rib, mutations>>
    /\ UNCHANGED <<miniVars, profileVars, xfoilVars>>

ReadRotationMatrix ==
    \E res \in {RotationMatrixGet(rib, cache)} : Read("rotation_matrix", res)

ReadProfile3d == \E res \in {Profile3dGet(rib, cache)} : Read("profile_3d", res)

ReadNormvectors == \E res \in {NormvectorsGet(rib, cache)} : Read("normvectors", res)

\* Reading aoa_absolute or aoa_relative: a getter, nothing is stored.
ReadAoa ==
    /\ \E which \in {"aoa_absolute", "aoa_relative"} :
          last' = [op |-> which, raised |-> FALSE,
                   value |-> <<IF which = "aoa_absolute" THEN aoa_absolute(rib)
                               ELSE aoa_relative(rib)>>,
                   ran |-> {}]
    /\ UNCHANGED <<rib, cache, unchanged, mutations>>
    /\ UNCHANGED <<miniVars, profileVars, xfoilVars>>

PlacementNext ==
    \/ SetAoaAbsolute
    \/ SetAoaRelative
    \/ SetArcang
    \/ SetZrot
    \/ SetGlide
    \/ SetChord
    \/ SetPos
    \/ Mirror
    \/ ReadRotationMatrix
    \/ ReadProfile3d
    \/ ReadNormvectors

\* A rib whose placement parameters are mutated and whose properties are read.
SpecPlacement == RibInit /\ [][PlacementNext]_vars

RibNext == PlacementNext \/ SetProfile2d

\* The same, and profile_2d may change as well.
SpecRib == RibInit /\ [][RibNext]_vars

\* rib.aoa_absolute = rib.aoa_absolute: the value read is written back.
WriteBackAbsolute == Mutate("aoa_absolute=aoa_absolute", set_aoa_absolute(rib, aoa_absolute(rib)))

\* rib.aoa_relative = rib.aoa_relative
WriteBackRelative == Mutate("aoa_relative=aoa_relative", set_aoa_relative(rib, aoa_relative(rib)))

AoaNext ==
    \/ SetAoaAbsolute
    \/ SetAoaRelative
    \/ SetArcang
    \/ SetGlide
    \/ Mirror
    \/ ReadAoa
    \/ WriteBackAbsolute
    \/ WriteBackRelative

\* A rib whose angle of attack is set and read in both representations.
SpecAoa == RibInit /\ [][AoaNext]_vars

----------------------------------------------------------------------------
(* Rib: the properties                                                     *)

\* The 3D points of the profile from the current attributes, without any
\* cache: align of every point of profile_2d.data.
AlignedProfile(r) ==
    CHOOSE pts \in
        {[i \in 1..Len(r.profile_2d.data) |-> AlignWith(r, m, r.profile_2d.data[i])] :
            m \in {rotation_matrix(r)}} : TRUE

\* C1: no stale reads while the placement parameters are mutated: a read of
\* rotation_matrix returns the matrix of the current arcang, glide, zrot and
\* aoa, and a read of profile_3d returns align of every point of
\* profile_2d.data with the current pos, chord and rotation_matrix.
C1_NoStaleReads ==
    /\ last.op = "rotation_matrix" =>
          last.value = rotation_rib(aoa_absolute(rib), rib.arcang,
                                    Mul[Div[ArcTan[rib.arcang], rib.glide], rib.zrot])
    /\ (last.op = "profile_3d" /\ ~last.raised) => last.value = AlignedProfile(rib)

\* A read of rotation_matrix that recomputed after a mutation, while the
\* profile_3d slot still holds the points of the earlier parameters.
C1_Witness ==
    /\ last.op = "rotation_matrix"
    /\ "rotation_matrix" \in last.ran
    /\ mutations > 0
    /\ cache.profile_3d.valid
    /\ cache.profile_3d.hash # <<HashSelf(rib)>>

\* C2: profile_3d follows profile_2d: a read of profile_3d returns the
\* aligned points of the current profile_2d.data, also after profile_2d was
\* bound to another profile or its data was replaced.
C2_Profile3dFollowsProfile2d ==
    (last.op = "profile_3d" /\ ~rib.profile_2d.none) =>
        (~last.raised /\ last.value = AlignedProfile(rib))

C4_AoaDuality ==
    /\ [](rib._aoa[1] \in Int /\ rib._aoa[2] \in BOOLEAN /\ Len(rib._aoa) = 2)
    /\ [][/\ last'.op = "aoa_absolute=" => rib'._aoa[1] \in AoaValues /\ ~rib'._aoa[2]
          /\ last'.op = "aoa_relative=" => rib'._aoa[1] \in AoaValues /\ rib'._aoa[2]
          /\ last'.op = "aoa_absolute" =>
                /\ rib' = rib
                /\ last'.value[1] = IF rib._aoa[2]
                                    THEN rib._aoa[1] - ArcTan[Div[Cos[rib.arcang], rib.glide]]
                                    ELSE rib._aoa[1]
          /\ last'.op = "aoa_relative" =>
                /\ rib' = rib
                /\ last'.value[1] = IF rib._aoa[2]
                                    THEN rib._aoa[1]
                                    ELSE rib._aoa[1] + ArcTan[Div[Cos[rib.arcang], rib.glide]]
          /\ last'.op = "aoa_absolute=aoa_absolute" =>
                ~rib'._aoa[2] /\ aoa_relative(rib') = aoa_relative(rib)
          /\ last'.op = "aoa_relative=aoa_relative" =>
                rib'._aoa[2] /\ aoa_absolute(rib') = aoa_absolute(rib)]_vars

\* The relative value 0.1 was stored, read as absolute and written back
\* through the absolute setter, and aoa_relative reads 0.1 again.
C4_Witness ==
    /\ last.op = "aoa_relative"
    /\ last.value = <<100>>
    /\ ~rib._aoa[2]
    /\ rib._aoa[1] # 100
    /\ aoa_diff(rib.arcang, rib.glide) # 0

\* C5: mirror() negates arcang, zrot and the y component of pos and leaves
\* chord, glide, the stored aoa, profile_2d, ballooning and name alone; a
\* second mirror() restores arcang, zrot and pos; the read of
\* rotation_matrix or profile_3d that follows a mirror() returns the value
\* of the mirrored attributes.
C5_Mirror ==
    [][/\ last'.op = "mirror" =>
            /\ rib'.arcang = -rib.arcang
            /\ rib'.zrot = -rib.zrot
            /\ rib'.pos = <<rib.pos[1], -rib.pos[2], rib.pos[3]>>
            /\ rib'.chord = rib.chord /\ rib'.glide = rib.glide /\ rib'._aoa = rib._aoa
            /\ rib'.profile_2d = rib.profile_2d /\ rib'.ballooning = rib.ballooning
            /\ rib'.name = rib.name
            /\ mirror(rib').arcang = rib.arcang
            /\ mirror(rib').zrot = rib.zrot
            /\ mirror(rib').pos = rib.pos
       /\ (last.op = "mirror" /\ last'.op = "rotation_matrix") =>
            last'.value = rotation_matrix(rib)
       /\ (last.op = "mirror" /\ last'.op = "profile_3d" /\ ~last'.raised) =>
            last'.value = AlignedProfile(rib)]_vars

\* The second of two mirror() calls, with a rotation matrix cached in
\* between for the mirrored (negative) arc angle and a non-zero twist.
C5_Witness ==
    /\ last.op = "mirror"
    /\ rib.arcang > 0 /\ rib.pos[2] > 0
    /\ cache.rotation_matrix.valid
    /\ cache.rotation_matrix.hash[1] < 0
    /\ cache.rotation_matrix.hash[3] # 0

----------------------------------------------------------------------------
(* MiniRib                                                                 *)

FrontCuts == {0, 200, 400}

BackCuts == {600, 800, Unit}

\* The arguments function is called with: signed x-values, negative on the
\* upper surface.
XSamples == {100 * k : k \in -12..12}

\* BezierCurve(points).interpolation() at x, for the control points of
\* MiniRib.__init__ with front_cut = 0: the curve through (0, 0) and
\* (back_cut, 0), or the quadratic curve with the control points (0, 0),
\* (2/3 back_cut, 0) and (back_cut, 1), whose parameter at x is
\* t = 2 - sqrt(4 - 3 x / back_cut) and whose height is t * t.
BezierParameter[q \in Int] == 2 * Unit - Sqrt[4 * Unit - 3 * q]

BezierHeight[t \in Int] == Mul[t, t]

BezierInterpolation(points, x) ==
    IF Len(points) = 2 THEN 0
    ELSE BezierHeight[BezierParameter[Div[Min2[x, points[3][1]], points[3][1]]]]

\* The functions a caller passes as func: x |-> slope * x + offset
CallerFuncs ==
    {[kind |-> "callable", slope |-> 2 * Unit, offset |-> -500],
     [kind |-> "callable", slope |-> -Unit, offset |-> 500]}

\* func=None
NoFunc == [kind |-> "None"]

\* The control points of the default function (front_cut <= 0).
DefaultPoints(front_cut, back_cut) ==
    <<<<front_cut, 0>>>> \o
    (IF back_cut < Unit
     THEN << <<RoundDiv[front_cut, 3] + RoundDiv[2 * back_cut, 3], 0>>, <<back_cut, Unit>> >>
     ELSE << <<back_cut, 0>> >>)

\* MiniRib.__init__
NewMiniRib(yvalue, front_cut, back_cut, func) ==
    [y_value |-> yvalue, front_cut |-> front_cut, back_cut |-> back_cut,
     function |-> IF func.kind = "None"
                  THEN [kind |-> "bezier", points |-> DefaultPoints(front_cut, back_cut)]
                  ELSE func]

\* self.__function__(x)
CallFunction(f, x) ==
    IF f.kind = "bezier" THEN BezierInterpolation(f.points, x)
    ELSE Mul[f.slope, x] + f.offset

\* The result of function without the clamp to [0, 1].
function_unclamped(m, x) ==
    IF m.front_cut <= Abs[x] /\ Abs[x] <= m.back_cut
    THEN CallFunction(m.function, Abs[x])
    ELSE Unit

\* MiniRib.function
function(m, x) ==
    IF m.front_cut <= Abs[x] /\ Abs[x] <= m.back_cut
    THEN Min2[Unit, Max2[0, CallFunction(m.function, Abs[x])]]
    ELSE Unit

\* A MiniRib is constructed with the default function (front_cut = 0: with
\* front_cut > 0 the second default control point has a single coordinate)
\* or with a function of the caller.
MiniRibInit ==
    /\ \E front_cut \in FrontCuts, back_cut \in BackCuts, func \in CallerFuncs \cup {NoFunc} :
          /\ func.kind = "None" => front_cut = 0
          /\ minirib = NewMiniRib(500, front_cut, back_cut, func)
    /\ weight = [called |-> FALSE, x |-> 0, value |-> 0]
    /\ RibIdle
    /\ ProfileIdle
    /\ XFoilIdle

\* minirib.function(x)
Function ==
    \E x \in XSamples :
        /\ weight' = [called |-> TRUE, x |-> x, value |-> function(minirib, x)]
        /\ UNCHANGED <<minirib, ribVars, profileVars, xfoilVars>>

MiniRibNext == Function

SpecMiniRib == MiniRibInit /\ [][MiniRibNext]_vars

----------------------------------------------------------------------------
(* Profile2D: the geometry of a profile                                    *)

\* A profile given with a chord of 2, which Normalize scales.
WideProfile ==
    << <<2000, 0>>, <<1000, 100>>, <<0, 0>>, <<1000, -100>>, <<2000, 0>> >>

\* numpy.array of a list of points: the points, evaluated.
Array(points) == <<>> \o points

\* The least element of a non-empty set of integers.
Least(S) == CHOOSE i \in S : \A j \in S : i <= j

\* The greatest element of a non-empty set of integers.
Greatest(S) == CHOOSE i \in S : \A j \in S : j <= i

\* The indices i (from 0) at which the loop of _SetProfile stops without
\* leaving the list: profile[i+1].x is not below profile[i].x
ScanStops(profile) ==
    {i \in 0..(Len(profile) - 2) : ~(profile[i + 2][1] < profile[i + 1][1])}

\* BasicProfile2D._SetProfile: data is assigned, then the nose is scanned
\* for; when x decreases up to the last point, profile[i+1] raises
\* IndexError and noseindex keeps its value.
SetProfile(p, profile) ==
    IF ScanStops(profile) = {}
    THEN [object |-> [p EXCEPT !.data = profile], raised |-> TRUE]
    ELSE [object |-> [p EXCEPT !.data = profile, !.noseindex = Least(ScanStops(profile))],
          raised |-> FALSE]

\* Vector.norm of a 2D vector
Norm2[dx \in Int, dy \in Int] == Sqrt[Mul[dx, dx] + Mul[dy, dy]]

\* The distance of point i from the first point.
Distance(data, i) == Norm2[data[i][1] - data[1][1], data[i][2] - data[1][2]]

\* The nose of Normalize: the first point at the greatest distance from
\* the first point.
NoseOf(data) ==
    CHOOSE i \in 1..Len(data) :
        /\ \A j \in 1..Len(data) : Distance(data, j) <= Distance(data, i)
        /\ \A j \in 1..(i - 1) : Distance(data, j) < Distance(data, i)

\* cos = numpy.sqrt(1 - sin ** 2)
CosOfSin[sin \in Int] == Sqrt[Unit - Mul[sin, sin]]

\* matrix.dot(p - nose), with matrix = [[cos, -sin], [sin, cos]] / dmax
Turned[p \in Int \X Int, nose \in Int \X Int, sin \in Int, dmax \in Int] ==
    <<Mul[Div[CosOfSin[sin], dmax], p[1] - nose[1]]
        + Mul[Div[-sin, dmax], p[2] - nose[2]],
      Mul[Div[sin, dmax], p[1] - nose[1]]
        + Mul[Div[CosOfSin[sin], dmax], p[2] - nose[2]]>>

\* Normalize, once the nose (point n, at the distance dmax) is found:
\* sin = (diff / dmax).dot([0, -1]) with diff = p1 - nose
NormalizeAbout(data, n, dmax) ==
    [i \in 1..Len(data) |->
        Turned[data[i], data[n], -Div[data[1][2] - data[n][2], dmax], dmax]]

\* BasicProfile2D.Normalize (dmax > 0): the new data
Normalize(data) ==
    CHOOSE new \in {NormalizeAbout(data, n, Distance(data, n)) : n \in {NoseOf(data)}} : TRUE

\* The segments (i, i+1) of data between whose ends x lies, on the upper
\* surface (x descending) for x < 0 and on the lower one for x >= 0.
Brackets(data, x) ==
    {i \in 1..(Len(data) - 1) :
        IF x < 0 THEN data[i][1] >= -x /\ -x >= data[i + 1][1]
                 ELSE data[i][1] <= x /\ x <= data[i + 1][1]}

\* x is within the stored bounds of its surface.
InRange(data, x) == Brackets(data, x) # {}

\* The linear interpolation between (x0, y0) and (x1, y1) at x.
Interpolate[x0 \in Int, y0 \in Int, x1 \in Int, y1 \in Int, x \in Int] ==
    IF x1 = x0 THEN y0 ELSE y0 + RoundDiv[(y1 - y0) * (x - x0), x1 - x0]

\* The point of segment i at the unsigned x.
PointOn(data, i, x) ==
    <<x, Interpolate[data[i][1], data[i][2], data[i + 1][1], data[i + 1][2], x]>>

\* Point(data, x)[1]: the point of the profile for the signed x-value x.
Point(data, x) == PointOn(data, Least(Brackets(data, x)), Abs[x])

\* Point(data, x, 0.): the point of the midline at x >= 0.
MidPoint(data, x) == <<x, RoundDiv[Point(data, -x)[2] + Point(data, x)[2], 2]>>

\* BasicProfile2D.Points(xvalues)[:, 1]
Points(data, xvalues) == [i \in 1..Len(xvalues) |-> Point(data, xvalues[i])]

\* Profile2D._GetXValues
GetXValues(p) ==
    [i \in 1..Len(p.data) |->
        IF i - 1 < p.noseindex THEN -p.data[i][1] ELSE p.data[i][1]]

\* Profile2D._SetXValues
SetXValues(p, xval) == SetProfile(p, Points(p.root.data, xval))

\* Every x-value of xval is within the stored bounds of the root profile.
CanResample(p, xval) == \A i \in 1..Len(xval) : InRange(p.root.data, xval[i])

\* xtemp of _SetLen at x = j / i: cmp(x, 0.5) * (1 - math.sin(math.pi * x))
xtemp[j \in Int, i \in Int] == Sgn[2 * j - i] * (Unit - Sin[RoundDiv[Pi * j, i]])

\* i = num - num % 2
EvenBelow[num \in Int] == num - (num % 2)

\* The x-values _SetLen generates for num: xtemp(j / i) for j in range(i + 1)
CosineDistribution(num) ==
    [j \in 1..(EvenBelow[num] + 1) |-> xtemp[j - 1, EvenBelow[num]]]

\* Profile2D._SetLen
SetLen(p, num) == SetXValues(p, CosineDistribution(num))

\* Profile2D._GetLen
GetLen(p) == Len(p.data)

----------------------------------------------------------------------------
(* Profile2D: the objects and their operations                             *)

\* An object before __init__ ran on it.
Blank ==
    [Name |-> <<>>, data |-> <<>>, noseindex |-> 0,
     root |-> [data |-> <<>>, noseindex |-> 0]]

\* name="Profile"
DefaultName == <<"Profile">>

\* Profile2D.__init__(profile, name) on the object p: the name is set, the
\* root profile is built from the points (BasicProfile2D(profile) scans for
\* the nose and may raise) and normalized, and its data becomes the data.
Profile2D(p, profile, name) ==
    IF ScanStops(profile) = {}
    THEN [object |-> [p EXCEPT !.Name = name], raised |-> TRUE]
    ELSE CHOOSE out \in
            {SetProfile([p EXCEPT !.Name = name,
                                  !.root = [data |-> new,
                                            noseindex |-> Least(ScanStops(profile))]],
                        new) : new \in {Array(Normalize(profile))}} : TRUE

\* Profile2D.Reset
Reset(p) == SetProfile(p, p.root.data)

\* set(map(abs, self.XValues))
UnsignedXValues(p) == {Abs[p.data[i][1]] : i \in 1..Len(p.data)}

\* Both surfaces of the data are stored at every x of the profile.
CanMeasure(p) ==
    \A x \in UnsignedXValues(p) : InRange(p.data, x) /\ InRange(p.data, -x)

\* One row of _GetThick: Point(-x)[1][1] - Point(x)[1][1]
ThicknessAt(data, x) == Point(data, -x)[2] - Point(data, x)[2]

\* max(self.Thickness[:, 1])
MaxThickness(p) == Greatest({ThicknessAt(p.data, x) : x \in UnsignedXValues(p)})

\* self.Profile * [1., factor]
ScaledY(data, factor) == [i \in 1..Len(data) |-> <<data[i][1], Mul[data[i][2], factor]>>]

\* Profile2D._SetThick: the name gets the new thickness as a suffix.
SetThick(p, newthick) ==
    Profile2D(p, ScaledY(p.data, Div[newthick, MaxThickness(p)]),
              Append(p.Name, newthick))

\* max(now[:, 1]) of _setcamber, now being self.Camber
MaxCamber(p) == Greatest({MidPoint(p.data, x)[2] : x \in UnsignedXValues(p)})

\* [i + [0, now[i[0]] * factor] for i in self.Profile]
CamberedY(data, factor) ==
    [i \in 1..Len(data) |->
        <<data[i][1], data[i][2] + Mul[MidPoint(data, data[i][1])[2], factor]>>]

\* Profile2D._setcamber: __init__ without a name.
setcamber(p, newcamber) ==
    Profile2D(p, CamberedY(p.data, Div[newcamber, MaxCamber(p)] - Unit), DefaultName)

\* A copy that is the object itself.
copy_sharing(h, ref) == [heap |-> h, ref |-> ref, raised |-> FALSE]

\* BasicProfile2D.copy of the object ref: self.__class__(self.data.copy()),
\* a new object, first.
copy(h, ref) ==
    CHOOSE out \in
        {[heap |-> IF new.raised THEN h ELSE [h EXCEPT !.first = new.object],
          ref |-> "first", raised |-> new.raised] :
            new \in {Profile2D(Blank, h[ref].data, DefaultName)}} : TRUE

\* first.Profile + second.Profile * numpy.array([0, 1])
AddedY(first, second) ==
    [i \in 1..Len(first.data) |->
        <<first.data[i][1], first.data[i][2] + second.data[i][2]>>]

\* The end of __add__: first.Profile = ...; return first
AddFinish(h, first, second) ==
    CHOOSE out \in
        {[heap |-> [h EXCEPT ![first] = set.object], raised |-> set.raised,
          result |-> IF set.raised THEN "None" ELSE first] :
            set \in {SetProfile(h[first], Array(AddedY(h[first], h[second])))}} : TRUE

\* The middle of __add__: first.XValues = second.XValues unless equal
AddResample(h, first, second) ==
    IF GetXValues(h[first]) = GetXValues(h[second]) THEN AddFinish(h, first, second)
    ELSE CHOOSE out \in
            {IF set.raised
             THEN [heap |-> [h EXCEPT ![first] = set.object], raised |-> TRUE,
                   result |-> "None"]
             ELSE AddFinish([h EXCEPT ![first] = set.object], first, second) :
                set \in {SetXValues(h[first], Array(GetXValues(h[second])))}} : TRUE

\* The operand __add__ copies and the one it uses as it is.
Copied(h, self, other) == IF GetLen(h[self]) > GetLen(h[other]) THEN other ELSE self

Second(h, self, other) == IF GetLen(h[self]) > GetLen(h[other]) THEN self ELSE other

\* Profile2D.__add__ of the objects self and other of the heap h.
add(h, self, other) ==
    CHOOSE out \in
        {IF c.raised THEN [heap |-> h, raised |-> TRUE, result |-> "None"]
         ELSE AddResample(c.heap, c.ref, Second(h, self, other)) :
            c \in {copy(h, Copied(h, self, other))}} : TRUE

\* The x-values of the second operand are within the stored bounds of the
\* root profile of the copy, where the copy is resampled.
CanAdd(h, self, other) ==
    \A c \in {copy(h, Copied(h, self, other))} :
        (~c.raised /\ GetXValues(c.heap[c.ref]) # GetXValues(c.heap[Second(h, self, other)]))
            => CanResample(c.heap[c.ref], GetXValues(c.heap[Second(h, self, other)]))

----------------------------------------------------------------------------
(* Profile2D: the operations as actions                                    *)

\* The x-distributions XValues is set to: both surfaces with 3 and with 5
\* points, the upper surface only, the lower surface only.
Distributions ==
    {<<-1000, 0, 1000>>, <<-1000, -500, 0, 500, 1000>>, <<-1000, -500, 0>>,
     <<0, 500, 1000>>}

NumpointsValues == {2, 5, 20}

ThicknessValues == {100, 222}

CamberValues == {18}

\* The number of operations on the profiles that a behaviour performs.
MaxSteps == 3

Called(op, arg, raised, result) ==
    [op |-> op, arg |-> arg, raised |-> raised, result |-> result]

\* self is constructed with the default profile, other with the default
\* profile or the wide one.
ProfileInit ==
    /\ \E points \in {DefaultProfile, WideProfile} :
          objects = [self |-> Profile2D(Blank, DefaultProfile, DefaultName).object,
                     other |-> Profile2D(Blank, points, DefaultName).object,
                     first |-> Blank]
    /\ call = Called("__init__", <<>>, FALSE, "None")
    /\ fresh = Profile2D(Blank, DefaultProfile, DefaultName).object
    /\ resamples = 0
    /\ steps = 0
    /\ RibIdle
    /\ MiniIdle
    /\ XFoilIdle

\* An operation on self that is not a set of XValues.
Operate(op, arg, out) ==
    /\ steps < MaxSteps
    /\ steps' = steps + 1
    /\ objects' = [objects EXCEPT !.self = out.object]
    /\ call' = Called(op, arg, out.raised, "None")
    /\ fresh' = out.object
    /\ resamples' = 0
    /\ UNCHANGED <<ribVars, miniVars, xfoilVars>>

\* A set of XValues on self, by the XValues or the Numpoints setter.
Resample(op, arg, out) ==
    /\ steps < MaxSteps
    /\ steps' = steps + 1
    /\ objects' = [objects EXCEPT !.self = out.object]
    /\ call' = Called(op, arg, out.raised, "None")
    /\ fresh' = fresh
    /\ resamples' = Min2[resamples + 1, 2]
    /\ UNCHANGED <<ribVars, miniVars, xfoilVars>>

\* self.XValues = xval
SetXValuesCall ==
    \E xval \in Distributions :
        /\ CanResample(objects.self, xval)
        /\ \E out \in {SetXValues(objects.self, xval)} : Resample("XValues=", xval, out)

\* self.Numpoints = num
SetNumpoints ==
    \E num \in NumpointsValues :
        /\ CanResample(objects.self, CosineDistribution(num))
        /\ \E out \in {SetLen(objects.self, num)} : Resample("Numpoints=", num, out)

\* self.Reset()
ResetCall == \E out \in {Reset(objects.self)} : Operate("Reset", <<>>, out)

\* self.Thickness = newthick
SetThickness ==
    \E newthick \in ThicknessValues :
        /\ CanMeasure(objects.self)
        /\ MaxThickness(objects.self) # 0
        /\ \E out \in {SetThick(objects.self, newthick)} : Operate("Thickness=", newthick, out)

\* self.Camber = newcamber
SetCamber ==
    \E newcamber \in CamberValues :
        /\ CanMeasure(objects.self)
        /\ MaxCamber(objects.self) # 0
        /\ \E out \in {setcamber(objects.self, newcamber)} : Operate("Camber=", newcamber, out)

\* a + b for the objects a and b
Add(a, b) ==
    /\ steps < MaxSteps
    /\ steps' = steps + 1
    /\ CanAdd(objects, a, b)
    /\ \E out \in {add(objects, a, b)} :
          /\ objects' = out.heap
          /\ call' = Called("+", <<a, b>>, out.raised, out.result)
          /\ fresh' = out.heap.self
    /\ resamples' = 0
    /\ UNCHANGED <<ribVars, miniVars, xfoilVars>>

\* self + other
AddSelfOther == Add("self", "other")

\* other + self
AddOtherSelf == Add("other", "self")

ProfileNext ==
    \/ SetXValuesCall
    \/ SetNumpoints
    \/ ResetCall
    \/ SetThickness
    \/ SetCamber
    \/ AddSelfOther
    \/ AddOtherSelf

\* Two profiles, one of which is resampled, reset, rescaled and added.
SpecProfile == ProfileInit /\ [][ProfileNext]_vars

----------------------------------------------------------------------------
(* Profile2D: the properties                                               *)

\* The x-values the last set of XValues asked for.
CalledDistribution ==
    IF call.op = "XValues=" THEN call.arg ELSE CosineDistribution(call.arg)

\* C6: idempotent resample from the root: after two sets of XValues in a
\* row, self has the data and the noseindex that the second set alone
\* gives the profile as it was before the first.
C6_ResampleFromRoot ==
    (call.op \in {"XValues=", "Numpoints="} /\ resamples = 2) =>
        \A direct \in {SetXValues(fresh, CalledDistribution).object} :
            /\ objects.self.data = direct.data
            /\ objects.self.noseindex = direct.noseindex

\* C7: the root profile keeps the resolution of the construction: the root
\* of self never has fewer points than the profile self was constructed
\* with.
C7_RootKeepsResolution == Len(objects.self.root.data) >= Len(DefaultProfile)

\* The distance up to which two fixed-point x-values count as equal.
Tolerance == Unit \div 500

\* The x-values xs are symmetric about the nose: they run from -1 through
\* 0 to 1 and the value at each place is the negative of the one at the
\* mirrored place.
SymmetricAboutNose(xs) ==
    /\ Len(xs) >= 1
    /\ xs[1] = -Unit /\ xs[Len(xs)] = Unit
    /\ \E i \in 1..Len(xs) : xs[i] = 0
    /\ \A i \in 1..Len(xs) : Abs[xs[i] + xs[Len(xs) + 1 - i]] <= Tolerance

\* C8: cosine distribution count: after Numpoints = n the profile holds n
\* rounded down to even points, or one fewer, never more than n, and the
\* generated x-values are symmetric about the nose.
C8_CosineCount ==
    (call.op = "Numpoints=" /\ ~call.raised) =>
        /\ GetLen(objects.self) \in {EvenBelow[call.arg], EvenBelow[call.arg] - 1}
        /\ GetLen(objects.self) <= call.arg
        /\ SymmetricAboutNose(CosineDistribution(call.arg))

\* The x-coordinates of the points of a profile.
XCoordinates(p) == [i \in 1..Len(p.data) |-> p.data[i][1]]

\* C9: a + b leaves a and b as they are (data, noseindex, root profile),
\* and its result has as many points as the operand with more points, at
\* the x-values of that operand.
C9_AdditionFrame ==
    [][call'.op = "+" =>
        /\ objects'.self = objects.self
        /\ objects'.other = objects.other
        /\ ~call'.raised =>
              /\ call'.result = "first"
              /\ GetLen(objects'.first) =
                    Max2[GetLen(objects.self), GetLen(objects.other)]
              /\ XCoordinates(objects'.first) =
                    XCoordinates(objects[Second(objects, call'.arg[1], call'.arg[2])])]_vars

\* An addition returned, of a self resampled to fewer points than other
\* has: its copy was resampled onto the x-values of other.
C9_Witness ==
    /\ call.op = "+" /\ ~call.raised
    /\ GetLen(objects.self) < GetLen(objects.other)
    /\ objects.self.data # objects.self.root.data
    /\ GetLen(objects.first) = GetLen(objects.other)
    /\ objects.first.root.data = objects.self.data

----------------------------------------------------------------------------
(* XFoil: a Profile2D with cached solver results (_Classes.py 207-249)     *)

\* The angles a calculation is asked for.
AngleRequests == {{0}, {5}, {0, 5}}

\* The exit status of the solver: 0, or not.
ExitStatus == {0, 1}

\* The number of operations on the XFoil object that a behaviour performs.
MaxCalls == 3

\* self._calcvalues = []
EmptyList == [type |-> "list", items |-> {}]

\* self._calcvalues = {}
EmptyDict == [type |-> "dict", items |-> {}]

\* XFoil.__init__(profile), the Profile2D part p being constructed.
NewXFoil(p) ==
    [Name |-> p.Name, data |-> p.data, noseindex |-> p.noseindex, root |-> p.root,
     _xvalues |-> Array(GetXValues(p)), _calcvalues |-> EmptyList]

\* XFoil._Change: self._xvalues == self.XValues, False for arrays of
\* different lengths and .all() of the comparison otherwise.
Change(x) ==
    /\ Len(x._xvalues) = Len(x.data)
    /\ \A i \in 1..Len(x.data) : x._xvalues[i] = GetXValues(x)[i]

\* The files of _Calc: resfile, pfile, the command file that Calcfile
\* writes, and the log the solver's output is redirected to.
TempFiles == {"resfile", "pfile", "cfile", "log"}

\* Impresults(resfile) after a run for the angles: per angle the result
\* for the coordinates that were exported, as pairs (angle, result).
Impresults(x, angles) == {<<a, Array(GetXValues(x))>> : a \in angles}

\* for i in result: self._calcvalues[i] = result[i], on a dict
Merged(calcvalues, result) ==
    [calcvalues EXCEPT
        !.items = {e \in @ : \A new \in result : new[1] # e[1]} \cup result]

\* How a call ended: the object and the files after it, whether it raised,
\* whether the result file was read, what it returned.  In xcall, ran says
\* whether the call started the solver and status is its exit status.
Ended(x, fs, raised, read) ==
    [object |-> x, files |-> fs, raised |-> raised, read |-> read, returned |-> "None"]

\* XFoil._Calc(angles) with the solver exiting with status; after a
\* non-zero exit a result file may be left (partial).  Assigning to an
\* index of the list [] raises before any file is removed.
Calc(x, fs, angles, status, partial) ==
    IF status = 0
    THEN IF x._calcvalues.type = "list" /\ angles # {}
         THEN Ended(x, fs \cup TempFiles, TRUE, TRUE)
         ELSE Ended([x EXCEPT !._calcvalues = Merged(@, Impresults(x, angles))],
                    (fs \cup TempFiles) \ {"resfile", "pfile", "cfile"}, FALSE, TRUE)
    ELSE Ended(x,
               (fs \cup {"pfile", "cfile", "log"}
                   \cup (IF partial THEN {"resfile"} ELSE {})) \ {"pfile", "cfile"},
               FALSE, FALSE)

\* The first statements of _Get: if self._Change(): ...
Checked(x) ==
    IF Change(x)
    THEN [x EXCEPT !._calcvalues = EmptyDict, !._xvalues = Array(GetXValues(x))]
    ELSE x

\* XValues(angle, self._calcvalues) of _XFoilCalc: the angles asked for
\* that have no cached result.
MissingAngles(angles, calcvalues) ==
    {a \in angles : \A e \in calcvalues.items : e[1] # a}

\* XFoil._Get(angle): with nothing to calculate, erg is not bound and
\* return erg raises.
Get(x, fs, angles, status, partial) ==
    CHOOSE out \in
        {IF MissingAngles(angles, y._calcvalues) # {}
         THEN Calc(y, fs, MissingAngles(angles, y._calcvalues), status, partial)
         ELSE Ended(y, fs, TRUE, FALSE) : y \in {Checked(x)}} : TRUE

\* XFoil(profile) with the default points of Profile2D.
XFoilInit ==
    /\ xfoil = NewXFoil(Profile2D(Blank, DefaultProfile, DefaultName).object)
    /\ files = {}
    /\ xcall = [op |-> "__init__", angles |-> {}, ran |-> FALSE, status |-> 0, raised |-> FALSE,
                read |-> FALSE, returned |-> "None"]
    /\ prior = NewXFoil(Profile2D(Blank, DefaultProfile, DefaultName).object)
    /\ xsteps = 0
    /\ RibIdle
    /\ MiniIdle
    /\ ProfileIdle

\* A call on the XFoil object.
XCalled(op, angles, ran, status, out) ==
    /\ xsteps < MaxCalls
    /\ xsteps' = xsteps + 1
    /\ xfoil' = out.object
    /\ files' = out.files
    /\ xcall' = [op |-> op, angles |-> angles, ran |-> ran, status |-> status,
                 raised |-> out.raised,
                 read |-> out.read, returned |-> out.returned]
    /\ prior' = xfoil
    /\ UNCHANGED <<ribVars, miniVars, profileVars>>

\* xfoil.XValues = xval
XFoilSetXValues ==
    \E xval \in Distributions :
        /\ CanResample(xfoil, xval)
        /\ \E set \in {SetXValues(xfoil, xval)} :
              XCalled("XValues=", {}, FALSE, 0, Ended(set.object, files, set.raised, FALSE))

\* xfoil._Calc(angles)
CalcCall ==
    \E angles \in AngleRequests, status \in ExitStatus, partial \in BOOLEAN :
        /\ partial => status # 0
        /\ \E out \in {Calc(xfoil, files, angles, status, partial)} :
              XCalled("_Calc", angles, TRUE, status, out)

\* xfoil._Get(angles): the solver runs when a result is missing.
GetCall ==
    \E angles \in AngleRequests, status \in ExitStatus, partial \in BOOLEAN :
        /\ partial => status # 0
        /\ \E out \in {Get(xfoil, files, angles, status, partial)} :
              IF MissingAngles(angles, Checked(xfoil)._calcvalues) # {}
              THEN XCalled("_Get", angles, TRUE, status, out)
              ELSE status = 0 /\ XCalled("_Get", angles, FALSE, 0, out)

XFoilNext ==
    \/ XFoilSetXValues
    \/ CalcCall
    \/ GetCall

\* An XFoil object that is resampled and asked for results.
SpecXFoil == XFoilInit /\ [][XFoilNext]_vars

\* The cached results as _Calc found them in the last call.
CalcvaluesAtCalc ==
    IF xcall.op = "_Get" THEN Checked(prior)._calcvalues ELSE prior._calcvalues

\* C11: solver call cleanup: a _Calc whose solver exits non-zero reads no
\* result file and leaves _calcvalues as it found it; whatever the exit
\* status, the profile file and the command file are gone after _Calc, and
\* after a zero exit the result file is gone as well.
C11_SolverCleanup ==
    xcall.ran =>
        /\ xcall.status # 0 =>
              (~xcall.read /\ xfoil._calcvalues = CalcvaluesAtCalc)
        /\ "pfile" \notin files /\ "cfile" \notin files
        /\ xcall.status = 0 => "resfile" \notin files

\* C12: a failure of the solver is reported: after a non-zero exit the
\* cached results are the ones before the call, and the call raised or
\* returned something other than what a successful call returns (None).
C12_FailureReported ==
    (xcall.ran /\ xcall.status # 0) =>
        /\ xfoil._calcvalues = prior._calcvalues
        /\ xcall.raised \/ xcall.returned # "None"

\* C16: validity of the cached results: _Get discards them and records the
\* x-values anew exactly when the x-values differ from the recorded ones,
\* keeps them otherwise, and so every cached result is one for the
\* coordinates of the profile.
C16_CacheValidity ==
    xcall.op = "_Get" =>
        /\ ~Change(prior) =>
              /\ xfoil._xvalues = GetXValues(xfoil)
              /\ prior._calcvalues.items \cap xfoil._calcvalues.items = {}
        /\ Change(prior) => prior._calcvalues.items \subseteq xfoil._calcvalues.items
        /\ \A e \in xfoil._calcvalues.items : e[2] = GetXValues(xfoil)

\* C15: the nose index after an assignment of profile data: the set of
\* XValues ends without an error, noseindex is an index of data, the point
\* there has an x not greater than the x of the points next to it, and
\* XValues has one value per point, -x before the nose and x from it on.
C15_NoseIndex ==
    \A p \in {objects.self} :
        /\ call.op \in {"XValues=", "Numpoints="} => ~call.raised
        /\ p.noseindex \in 0..(Len(p.data) - 1)
        /\ \A j \in {p.noseindex, p.noseindex + 2} \cap (1..Len(p.data)) :
              p.data[p.noseindex + 1][1] <= p.data[j][1]
        /\ Len(GetXValues(p)) = Len(p.data)
        /\ \A i \in 1..Len(p.data) :
              GetXValues(p)[i] = (IF i <= p.noseindex THEN -1 ELSE 1) * p.data[i][1]

\* The rib has no 2D profile: profile_2d is None or its data is.
NoProfile2d(r) == ~r.profile_2d.object \/ r.profile_2d.none

\* C13: a rib without 2D profile: a read of profile_3d of a rib whose
\* profile_2d or profile_2d.data is None raises the ValueError that names
\* the rib; it returns no points and raises no other error.
C13_MissingProfile ==
    (last.op = "profile_3d" /\ NoProfile2d(rib)) =>
        (last.raised /\ last.error = ValueError(rib))

\* Three successive rotations: by first about the axis (-1, 0, 0), by
\* second about what the rotation so far makes of (0, 0, 1), by third
\* about what the rotation so far makes of (0, 1, 0).
ThreeRotations(first, second, third) ==
    CHOOSE out \in
        {MatMul[rotation_3d[third, MatVec[ab, <<0, Unit, 0>>]], ab] :
            ab \in {MatMul[rotation_3d[second, MatVec[a, <<0, 0, Unit>>]], a] :
                        a \in {rotation_3d[first, <<-Unit, 0, 0>>]}}} : TRUE

\* The angle of the third rotation: arctan(arcang) / glide * zrot
GlidewiseAngle(r) == Mul[Div[ArcTan[r.arcang], r.glide], r.zrot]

\* C14 as stated: rotation_matrix is the composition of the rotation by
\* pi/2 - arcang, the rotation by aoa_absolute and the rotation by the
\* rib's zrot itself, each about the canonical axis as turned so far.
C14_ZrotItself ==
    last.op = "rotation_matrix" =>
        last.value = ThreeRotations(HalfPi - rib.arcang, aoa_absolute(rib), rib.zrot)

\* C14: composition of the rotation matrix: a read of rotation_matrix
\* returns the rotation by pi/2 - arcang about the first axis, then by
\* aoa_absolute about the turned second axis, then by
\* arctan(arcang) / glide * zrot about the turned third axis.
C14_RotationComposition ==
    last.op = "rotation_matrix" =>
        last.value = ThreeRotations(HalfPi - rib.arcang, aoa_absolute(rib), GlidewiseAngle(rib))

\* A rotation_matrix was read of a rib whose third angle is not its zrot,
\* and the matrix is not the one that zrot itself gives.
C14_Witness ==
    /\ last.op = "rotation_matrix"
    /\ ~last.raised
    /\ GlidewiseAngle(rib) # rib.zrot
    /\ last.value # ThreeRotations(HalfPi - rib.arcang, aoa_absolute(rib), rib.zrot)

====
